---- MODULE Spec2Model ----
(***************************************************************************)
(* State-machine model of src/App.tsx: the App component's signals, its    *)
(* reactive effects, its event handlers, the media element it drives, the  *)
(* requestAnimationFrame queue and the pending audio decodes.              *)
(*                                                                         *)
(* JavaScript numbers are modelled as exact rationals <<n, d>> in lowest   *)
(* terms with d > 0; NaN is the pair <<0, 0>>.  Signals that the code only *)
(* ever fills with integers (frameCount, tweenedFrames, currentPage) are   *)
(* integers.  Every action is one browser task: the handler together with  *)
(* the effects Solid re-runs before control returns to the event loop.     *)
(*                                                                         *)
(* Where the outcome turns on how a double rounds (the frame a click's     *)
(* seek time falls in), the same code is modelled a second time with       *)
(* IEEE-754 doubles: the definitions whose names end in Rounded.           *)
(***************************************************************************)
EXTENDS Integers, FiniteSets, Sequences, TLC

VARIABLES
    fps,                       \* signal, line 10
    frameCount,                \* signal, line 11
    useTweening,               \* signal, line 13
    tweenedFrames,             \* signal, line 14
    playbackSpeed,             \* signal, line 16
    audioBuffer,               \* signal, line 19: 0 (null) or the decoded file
    waveformData,              \* signal, line 20: 0 (null) or the decoded file
    audioFile,                 \* signal, line 21: 0 (null) or the chosen file
    isPlaying,                 \* signal, line 22
    currentTime,               \* signal, line 23
    currentPage,               \* signal, line 24
    audioElement,              \* line 26: the HTMLAudioElement (src = 0: undefined)
    playbackAnimationFrameId,  \* line 27: 0 (undefined) or the last handle
    rafQueue,                  \* handles of the animation-frame callbacks pending
    rafNext,                   \* number of requestAnimationFrame calls so far
    timeupdateQueued,          \* a "timeupdate" event task is queued
    decoding,                  \* files whose FileReader/decodeAudioData is in flight
    disposed,                  \* the component's owner was disposed (onCleanup ran)
    last,                      \* observation: the task that ran last
    endedQuiet                 \* observation: "ended" ran; no play, seek or load since

vars == <<fps, frameCount, useTweening, tweenedFrames, playbackSpeed, audioBuffer,
          waveformData, audioFile, isPlaying, currentTime, currentPage, audioElement,
          playbackAnimationFrameId, rafQueue, rafNext, timeupdateQueued, decoding,
          disposed, last, endedQuiet>>

params == <<fps, frameCount, useTweening, tweenedFrames>>

-----------------------------------------------------------------------------
(* Bounds of the model.                                                    *)

MaxRafId == 3
MaxBackPages == 1

(* Program constants.                                                      *)

columns == 17
rows == 12
width == 90
MinFps == 1
MaxFps == 60
MaxTweenInput == 8
TickRate == 60

-----------------------------------------------------------------------------
(* JavaScript numbers as rationals.                                        *)

Abs(n) == IF n < 0 THEN -n ELSE n

RECURSIVE GCD(_, _)
GCD(a, b) == IF b = 0 THEN a ELSE GCD(b, a % b)

NaN == <<0, 0>>
IsNaN(r) == r[2] = 0

Rat(n, d) ==
    IF d = 0 THEN NaN
    ELSE LET s == IF d < 0 THEN -1 ELSE 1
             g == GCD(Abs(n), Abs(d))
         IN  <<(s * n) \div g, (s * d) \div g>>

Num(n) == <<n, 1>>

RAdd(a, b) == IF IsNaN(a) \/ IsNaN(b) THEN NaN
              ELSE Rat(a[1] * b[2] + b[1] * a[2], a[2] * b[2])
RSub(a, b) == IF IsNaN(a) \/ IsNaN(b) THEN NaN
              ELSE Rat(a[1] * b[2] - b[1] * a[2], a[2] * b[2])
RMul(a, b) == IF IsNaN(a) \/ IsNaN(b) THEN NaN
              ELSE Rat(a[1] * b[1], a[2] * b[2])
RDiv(a, b) == IF IsNaN(a) \/ IsNaN(b) THEN NaN
              ELSE Rat(a[1] * b[2], a[2] * b[1])
\* Comparisons with NaN are false, as in JavaScript.
RLt(a, b) == ~IsNaN(a) /\ ~IsNaN(b) /\ a[1] * b[2] < b[1] * a[2]
RLe(a, b) == ~IsNaN(a) /\ ~IsNaN(b) /\ a[1] * b[2] <= b[1] * a[2]

\* Math.floor of a number, as an integer.
Floor(r) == r[1] \div r[2]

\* Math.min / Math.max on numbers.
RMin(a, b) == IF IsNaN(a) \/ IsNaN(b) THEN NaN ELSE IF RLt(b, a) THEN b ELSE a
RMax(a, b) == IF IsNaN(a) \/ IsNaN(b) THEN NaN ELSE IF RLt(a, b) THEN b ELSE a
Min(a, b) == IF b < a THEN b ELSE a
Max(a, b) == IF a < b THEN b ELSE a

\* The text of a number input is modelled by the number its digits denote
\* (val, NaN for empty or non-numeric text) and a decimal exponent (exp, the
\* part after an "e"; 0 when there is none).
Text(n, d) == [val |-> Rat(n, d), exp |-> 0]
TextExp(n, e) == [val |-> Num(n), exp |-> e]
EmptyText == [val |-> NaN, exp |-> 0]

RECURSIVE Pow10(_)
Pow10(e) == IF e = 0 THEN 1 ELSE 10 * Pow10(e - 1)

\* parseFloat reads the whole literal, exponent included.
parseFloat(t) == IF IsNaN(t.val) THEN NaN ELSE RMul(t.val, Num(Pow10(t.exp)))

\* parseInt reads the leading integer digits only: it stops at "." and at "e".
parseInt(t) ==
    IF IsNaN(t.val) THEN NaN
    ELSE IF t.val[1] >= 0 THEN Num(t.val[1] \div t.val[2])
         ELSE Num(-((-t.val[1]) \div t.val[2]))

\* a || b on numbers: NaN and 0 are falsy.
OrElse(a, b) == IF IsNaN(a) \/ a[1] = 0 THEN b ELSE a

\* A slip that forgets the lower bound.
clampNoLowerBound(value, min, max) == RMin(value, max)

\* Lines 5-6.
clamp(value, min, max) == RMax(min, RMin(value, max))

-----------------------------------------------------------------------------
(* Natural numbers of any size, for the arithmetic of IEEE-754 doubles: a  *)
(* sequence of limbs, least significant first, no leading zero limb; the   *)
(* empty sequence is 0.                                                    *)

LimbBits == 15
LimbBase == 32768

RECURSIVE Pow2(_)
Pow2(k) == IF k = 0 THEN 1 ELSE 2 * Pow2(k - 1)

RECURSIVE BigNorm(_)
BigNorm(a) ==
    IF a = <<>> THEN <<>>
    ELSE IF a[Len(a)] = 0 THEN BigNorm(SubSeq(a, 1, Len(a) - 1)) ELSE a

RECURSIVE BigOfNat(_)
BigOfNat(n) == IF n = 0 THEN <<>> ELSE <<n % LimbBase>> \o BigOfNat(n \div LimbBase)

RECURSIVE BigToNat(_)
BigToNat(a) == IF a = <<>> THEN 0 ELSE Head(a) + LimbBase * BigToNat(Tail(a))

Limb(a, i) == IF i <= Len(a) THEN a[i] ELSE 0

\* -1, 0 or 1 as a < b, a = b or a > b.
RECURSIVE BigCmpFrom(_, _, _)
BigCmpFrom(a, b, i) ==
    IF i = 0 THEN 0
    ELSE IF a[i] < b[i] THEN -1
    ELSE IF a[i] > b[i] THEN 1
    ELSE BigCmpFrom(a, b, i - 1)
BigCmp(a, b) ==
    IF Len(a) < Len(b) THEN -1
    ELSE IF Len(a) > Len(b) THEN 1
    ELSE BigCmpFrom(a, b, Len(a))

RECURSIVE BigAddFrom(_, _, _, _)
BigAddFrom(a, b, i, carry) ==
    IF i > Len(a) /\ i > Len(b)
      THEN IF carry = 0 THEN <<>> ELSE <<carry>>
      ELSE LET sum == Limb(a, i) + Limb(b, i) + carry
           IN  <<sum % LimbBase>> \o BigAddFrom(a, b, i + 1, sum \div LimbBase)
BigAdd(a, b) == BigAddFrom(a, b, 1, 0)

\* a - b, for a >= b.
RECURSIVE BigSubFrom(_, _, _, _)
BigSubFrom(a, b, i, borrow) ==
    IF i > Len(a) THEN <<>>
    ELSE LET diff == a[i] - Limb(b, i) - borrow
         IN  <<diff % LimbBase>> \o BigSubFrom(a, b, i + 1, IF diff < 0 THEN 1 ELSE 0)
BigSub(a, b) == BigNorm(BigSubFrom(a, b, 1, 0))

\* a * k, for 0 <= k < LimbBase.
RECURSIVE BigMulSmallFrom(_, _, _, _)
BigMulSmallFrom(a, k, i, carry) ==
    IF i > Len(a)
      THEN IF carry = 0 THEN <<>> ELSE <<carry>>
      ELSE LET prod == a[i] * k + carry
           IN  <<prod % LimbBase>> \o BigMulSmallFrom(a, k, i + 1, prod \div LimbBase)
BigMulSmall(a, k) == IF k = 0 THEN <<>> ELSE BigMulSmallFrom(a, k, 1, 0)

BigShiftLimbs(a, n) == IF a = <<>> THEN <<>> ELSE [i \in 1 .. n |-> 0] \o a

RECURSIVE BigMul(_, _)
BigMul(a, b) ==
    IF b = <<>> THEN <<>>
    ELSE BigAdd(BigMulSmall(a, Head(b)), BigShiftLimbs(BigMul(a, Tail(b)), 1))

\* The number of bits of a: 0 for 0.
RECURSIVE BitLenNat(_)
BitLenNat(n) == IF n = 0 THEN 0 ELSE 1 + BitLenNat(n \div 2)
BigBitLen(a) == IF a = <<>> THEN 0 ELSE LimbBits * (Len(a) - 1) + BitLenNat(a[Len(a)])

\* Bit i of a, bit 0 being the least significant.
BigBit(a, i) == (Limb(a, i \div LimbBits + 1) \div Pow2(i % LimbBits)) % 2

\* a * 2^k and floor(a / 2^k).
BigShl(a, k) == BigShiftLimbs(BigMulSmall(a, Pow2(k % LimbBits)), k \div LimbBits)
BigShr(a, k) ==
    LET n == k \div LimbBits
        r == k % LimbBits
        b == IF n >= Len(a) THEN <<>> ELSE SubSeq(a, n + 1, Len(a))
    IN  BigNorm([i \in 1 .. Len(b) |->
                    b[i] \div Pow2(r) + (Limb(b, i + 1) % Pow2(r)) * Pow2(LimbBits - r)])

\* Long division of a by d > 0, bit by bit: <<quotient, remainder>> of
\* r * 2^(hi - lo + 1) + (bits hi down to lo of a) by d, for r < d.  A range
\* of more than one bit is divided in two halves, the upper half first.
RECURSIVE BigDivModRange(_, _, _, _, _)
BigDivModRange(a, d, hi, lo, r) ==
    IF hi = lo
      THEN LET r2 == BigAdd(BigMulSmall(r, 2), BigOfNat(BigBit(a, lo)))
           IN  IF BigCmp(r2, d) >= 0 THEN <<<<1>>, BigSub(r2, d)>> ELSE <<<<>>, r2>>
      ELSE LET mid == (hi + lo + 1) \div 2
               up  == BigDivModRange(a, d, hi, mid, r)
               low == BigDivModRange(a, d, mid - 1, lo, up[2])
           IN  <<BigAdd(BigShl(up[1], mid - lo), low[1]), low[2]>>

\* <<quotient, remainder>> of a by a divisor of one limb, limb by limb.
RECURSIVE BigDivModSmallFrom(_, _, _, _)
BigDivModSmallFrom(a, k, i, rem) ==
    IF i = 0 THEN <<<<>>, BigOfNat(rem)>>
    ELSE LET cur  == rem * LimbBase + a[i]
             rest == BigDivModSmallFrom(a, k, i - 1, cur % k)
         IN  <<rest[1] \o <<cur \div k>>, rest[2]>>

BigDivMod(a, d) ==
    IF Len(d) = 1
      THEN LET qr == BigDivModSmallFrom(a, d[1], Len(a), 0) IN <<BigNorm(qr[1]), qr[2]>>
      ELSE IF BigCmp(a, d) < 0 THEN <<<<>>, a>>
      ELSE LET rest == BigBitLen(a) - (BigBitLen(d) - 1)
           IN  BigDivModRange(a, d, rest - 1, 0, BigShr(a, rest))

-----------------------------------------------------------------------------
(* IEEE-754 doubles, the numbers of JavaScript: a double >= 0 is <<m, e>>, *)
(* the value m * 2^e with m odd (or m = 0 and e = 0).  Every operation     *)
(* computes the exact result and rounds it to Precision significant bits,  *)
(* ties to even.  Values stay far from overflow and underflow.             *)

Precision == 53

RECURSIVE DNorm(_, _)
DNorm(m, e) ==
    IF m = <<>> THEN <<<<>>, 0>>
    ELSE IF m[1] = 0 THEN DNorm(Tail(m), e + LimbBits)
    ELSE IF m[1] % 2 = 0 THEN DNorm(BigShr(m, 1), e + 1)
    ELSE <<m, e>>

\* The double nearest to m * 2^e.
DRound(m, e) ==
    LET k == BigBitLen(m) - Precision IN
    IF k <= 0 THEN DNorm(m, e)
    ELSE LET q    == BigShr(m, k)
             rem  == BigSub(m, BigShl(q, k))
             c    == BigCmp(rem, BigShl(<<1>>, k - 1))
             up   == c > 0 \/ (c = 0 /\ BigBit(q, 0) = 1)
         IN  DNorm(IF up THEN BigAdd(q, <<1>>) ELSE q, e + k)

DOfNat(n) == DNorm(BigOfNat(n), 0)

DMul(a, b) == DRound(BigMul(a[1], b[1]), a[2] + b[2])

\* a and b as whole multiples of 2^e, e the smaller exponent.
DAligned(a, b) ==
    LET e == IF a[2] < b[2] THEN a[2] ELSE b[2]
    IN  <<BigShl(a[1], a[2] - e), BigShl(b[1], b[2] - e), e>>

DAdd(a, b) ==
    IF a[1] = <<>> THEN b
    ELSE IF b[1] = <<>> THEN a
    ELSE LET al == DAligned(a, b) IN DRound(BigAdd(al[1], al[2]), al[3])

DCmp(a, b) ==
    IF a[1] = <<>> THEN (IF b[1] = <<>> THEN 0 ELSE -1)
    ELSE IF b[1] = <<>> THEN 1
    ELSE LET al == DAligned(a, b) IN BigCmp(al[1], al[2])
DLt(a, b) == DCmp(a, b) < 0

\* a - b, for a >= b.
DSub(a, b) ==
    IF b[1] = <<>> THEN a
    ELSE LET al == DAligned(a, b) IN DRound(BigSub(al[1], al[2]), al[3])

\* a / b, for b > 0: the quotient to Precision + 2 bits, and one more bit
\* that tells whether the division left a remainder.
DDiv(a, b) ==
    IF a[1] = <<>> THEN a
    ELSE LET need == Precision + 2 + BigBitLen(b[1]) - BigBitLen(a[1])
             s    == IF need > 0 THEN need ELSE 0
             qr   == BigDivMod(BigShl(a[1], s), b[1])
             m    == BigAdd(BigMulSmall(qr[1], 2), IF qr[2] = <<>> THEN <<>> ELSE <<1>>)
         IN  DRound(m, a[2] - b[2] - s - 1)

DMin(a, b) == IF DLt(b, a) THEN b ELSE a

\* Math.floor of a double, as an integer.
DFloor(a) == BigToNat(IF a[2] >= 0 THEN BigShl(a[1], a[2]) ELSE BigShr(a[1], -a[2]))

\* A number with an exact binary expansion (a whole number, a half), as a double.
DOfRat(r) == DDiv(DOfNat(r[1]), DOfNat(r[2]))

-----------------------------------------------------------------------------
(* Derived values and effects of App.                                      *)

\* A slip that multiplies by tweenedFrames instead of tweenedFrames + 1.
EffectiveFpsNoPlusOne(use, tf, f) == IF use THEN RMul(Num(tf), f) ELSE f

\* Line 31.
EffectiveFps(use, tf, f) == IF use THEN RMul(Num(tf + 1), f) ELSE f
effectiveFps == EffectiveFps(useTweening, tweenedFrames, fps)

\* A slip that puts tweened frames after the last real frame too.
EffectiveFrameCountTweenAll(use, fc, tf) == IF use THEN fc + fc * tf ELSE fc

\* Lines 32-33.
EffectiveFrameCount(use, fc, tf) == IF use THEN fc + (fc - 1) * tf ELSE fc
effectiveFrameCount == EffectiveFrameCount(useTweening, frameCount, tweenedFrames)

\* Lines 36-38: the effect that clamps the base FPS.
fpsClampEffect(f) == clamp(f, Num(MinFps), Num(MaxFps))

\* Lines 41-48: the effect that lowers tweenedFrames to maxTween.  It reads
\* useTweening first, so it re-runs when tweening is switched on.
maxTween(f) == Max(0, Floor(RDiv(Num(MaxFps), f)) - 1)

\* A slip that forgets the "- 1" of line 43.
tweenClampEffectOffByOne(use, f, tf) ==
    LET m == Max(0, Floor(RDiv(Num(MaxFps), f))) IN IF use /\ tf > m THEN m ELSE tf

tweenClampEffect(use, f, tf) ==
    IF use /\ tf > maxTween(f) THEN maxTween(f) ELSE tf

\* Line 150.
framesPerPage == columns * rows

\* A slip that computes the page from the effective FPS as it was before the
\* task, not from the value the task leaves.
autoPageStale(t, efps) == Floor(RMul(t, effectiveFps)) \div framesPerPage

\* Lines 124-129: the auto page advance effect.
autoPage(t, efps) ==
    LET activeFrame == Floor(RMul(t, efps))
    IN  activeFrame \div framesPerPage

\* Lines 151-152.
startFrame == currentPage * framesPerPage
endFrame == Min(startFrame + framesPerPage, effectiveFrameCount)

\* Lines 266-271: Array.from({length: endFrame - startFrame}, i => startFrame + i);
\* a negative length gives the empty array.
visibleFrames == {startFrame + i : i \in 0 .. (endFrame - startFrame - 1)}

-----------------------------------------------------------------------------
(* The Frame component.                                                    *)

\* Lines 333-334.
startTime(index, efps) == RDiv(Num(index), efps)
endTime(index, efps) == RDiv(Num(index + 1), efps)

\* A slip that drops the Math.min of line 343.
playedRatioNoCap(index, efps, t) ==
    IF RLt(startTime(index, efps), t)
      THEN RDiv(RSub(t, startTime(index, efps)),
                RSub(endTime(index, efps), startTime(index, efps)))
      ELSE Num(0)

\* Lines 341-344.
playedRatio(index, efps, t) ==
    IF RLt(startTime(index, efps), t)
      THEN RMin(RDiv(RSub(t, startTime(index, efps)),
                     RSub(endTime(index, efps), startTime(index, efps))),
                Num(1))
      ELSE Num(0)

\* The % of JavaScript: the remainder takes the sign of the dividend.
JsRem(a, b) == IF a < 0 THEN -((-a) % Abs(b)) ELSE a % Abs(b)

\* A slip that takes the period one too long.
isRealFrameWrongPeriod(index, use, tf) ==
    IF ~use THEN TRUE ELSE JsRem(index, tf + 2) = 0

\* Lines 309-313.
isRealFrame(index, use, tf) ==
    IF ~use THEN TRUE ELSE JsRem(index, tf + 1) = 0

\* Line 328: the draw effect paints only when it is given both the channel
\* data and the buffer; otherwise the canvas stays blank.
drawsWaveform(buf, wave) == wave # 0 /\ buf # 0

\* Line 31 in doubles.  The base FPS values of the model and their
\* multiples are whole numbers or halves, which doubles hold exactly.
effectiveFpsRounded == DOfRat(effectiveFps)

\* Lines 316-324 in doubles.
seekTimeFromClickRounded(index, efps, x) ==
    LET fraction      == DDiv(DOfNat(x), DOfNat(width))
        frameDuration == DDiv(DOfNat(1), efps)
    IN  DAdd(DMul(DOfNat(index), frameDuration), DMul(fraction, frameDuration))

\* Line 126 in doubles.
activeFrameRounded(t, efps) == DFloor(DMul(t, efps))

\* Lines 124-129 in doubles.  The quotient of two whole numbers is not
\* rounded across a whole number, so line 127 is the integer division.
autoPageRounded(t, efps) == activeFrameRounded(t, efps) \div framesPerPage

\* Lines 333-334 and 341-344 in doubles.
playedRatioRounded(index, efps, t) ==
    LET s == DDiv(DOfNat(index), efps)
        e == DDiv(DOfNat(index + 1), efps)
    IN  IF DLt(s, t) THEN DMin(DDiv(DSub(t, s), DSub(e, s)), DOfNat(1))
                     ELSE DOfNat(0)

\* Lines 328-344 for the frame at index, with the props App passes at lines
\* 275-282: the played ratio the canvas shows (0 on a blank canvas).
shownPlayedRatio(index) ==
    IF drawsWaveform(audioBuffer, waveformData)
      THEN playedRatio(index, effectiveFps, currentTime)
      ELSE Num(0)

-----------------------------------------------------------------------------
(* Inputs.                                                                 *)

FpsTexts == {EmptyText, Text(0, 1), Text(-5, 1), Text(1, 2), Text(1, 1), Text(3, 2),
             Text(7, 1), Text(24, 1), Text(49, 2), Text(30, 1), Text(60, 1),
             Text(61, 1), TextExp(1, 3)}
FrameCountTexts == {EmptyText, Text(0, 1), Text(-5, 1), Text(1, 1), Text(5, 2),
                    Text(100, 1), TextExp(1, 3)}
TweenTexts == {EmptyText, Text(-1, 1), Text(0, 1), Text(1, 1), Text(3, 2), Text(2, 1),
               Text(8, 1), Text(9, 1)}

\* Playback speeds typed: all are rates a media element accepts (assigning
\* a rate it does not support throws inside the effect).
SpeedTexts == {EmptyText, Text(0, 1), Text(4, 1)}

\* The smaller input sets used when parameter edits interleave with playback.
FpsTextsPlay == {Text(24, 1), Text(61, 1)}
FrameCountTextsPlay == {Text(-5, 1), Text(100, 1)}
TweenTextsPlay == {Text(0, 1), Text(9, 1)}

\* The base FPS values typed while frames are clicked: a fractional rate,
\* the default and one above the maximum.
FpsTextsFrame == {Text(3, 2), Text(24, 1), Text(61, 1)}

\* The files the user can choose, and the length in seconds of each track.
Files == {1, 2}
Duration(f) == Num(4 * f)

\* Positions the media element reports while it plays.
MediaTimes == {Num(1), Num(5)}

\* Horizontal offsets e.clientX - rect.left of a click on a frame's canvas,
\* in pixels.  The raster is `width` pixels wide and rect is the border box,
\* one pixel wider on each side, so a click on the right border gives an
\* offset above `width`.  rect.left is a fractional layout coordinate while
\* a click's clientX is a whole number (and 0 for a click dispatched by
\* script), so the offset can also fall below 0.
ClickXs == {-1, 45, 91}

\* Offsets of clicks that land inside the raster: its left edge, its middle
\* and its last pixel column.
InsideXs == {0, 45, 89}

\* Parameter states <<fps, useTweening, tweenedFrames>> in which frames are
\* clicked: the defaults, tweening at 24, 12 and 18 fps, and a fractional
\* base FPS; and the whole seconds the track was played to before.
ClickParams == {<<Num(24), FALSE, 0>>, <<Num(24), TRUE, 1>>, <<Num(12), TRUE, 2>>,
                <<Num(18), TRUE, 2>>, <<Rat(49, 2), FALSE, 0>>}
ClickTimes == {0, 6}

Op(name, arg) == [op |-> name, arg |-> arg]

-----------------------------------------------------------------------------
(* Parameter edits.  Each is the onInput/onChange handler followed by the  *)
(* effects it invalidates, run until nothing changes.                      *)

playback == <<playbackSpeed, audioBuffer, waveformData, audioFile, isPlaying,
              currentTime, audioElement, playbackAnimationFrameId, rafQueue, rafNext,
              timeupdateQueued, decoding, disposed, endedQuiet>>
raf == <<playbackAnimationFrameId, rafQueue, rafNext>>
decoded == <<audioBuffer, waveformData>>

\* Lines 167-169, then the effects of lines 36-38, 41-48 and 124-129.
SetFps(t) ==
    /\ ~disposed
    /\ LET f  == fpsClampEffect(clamp(OrElse(parseFloat(t), Num(1)), Num(MinFps), Num(MaxFps)))
           tf == tweenClampEffect(useTweening, f, tweenedFrames)
       IN  /\ fps' = f
           /\ tweenedFrames' = tf
           /\ currentPage' = autoPage(currentTime, EffectiveFps(useTweening, tf, f))
    /\ last' = Op("setFps", parseFloat(t))
    /\ UNCHANGED <<frameCount, useTweening, playback>>

\* Line 180.
SetFrameCount(t) ==
    /\ ~disposed
    /\ frameCount' = OrElse(parseInt(t), Num(1))[1]
    /\ last' = Op("setFrameCount", parseInt(t))
    /\ UNCHANGED <<fps, useTweening, tweenedFrames, currentPage, playback>>

\* Line 192, then the effects of lines 41-48 and 124-129.
ToggleTweening ==
    /\ ~disposed
    /\ LET use == ~useTweening
           tf  == tweenClampEffect(use, fps, tweenedFrames)
       IN  /\ useTweening' = use
           /\ tweenedFrames' = tf
           /\ currentPage' = autoPage(currentTime, EffectiveFps(use, tf, fps))
    /\ last' = Op("toggleTweening", Num(tweenedFrames))
    /\ UNCHANGED <<fps, frameCount, playback>>

\* Lines 197-213: the input exists only while tweening is on.  Lines 206-208,
\* then the effects of lines 41-48 and 124-129.
SetTweenedFrames(t) ==
    /\ ~disposed
    /\ useTweening
    /\ LET typed == clamp(OrElse(parseInt(t), Num(0)), Num(0), Num(MaxTweenInput))[1]
           tf    == tweenClampEffect(useTweening, fps, typed)
       IN  /\ tweenedFrames' = tf
           /\ currentPage' = autoPage(currentTime, EffectiveFps(useTweening, tf, fps))
    /\ last' = Op("setTweenedFrames", parseInt(t))
    /\ UNCHANGED <<fps, frameCount, useTweening, playback>>

-----------------------------------------------------------------------------
(* The media element (new Audio(url)), as the HTML standard specifies it.  *)

NoElement == [src |-> 0, paused |-> TRUE, currentTime |-> Num(0),
              playbackRate |-> Num(1)]

\* HTMLMediaElement.pause(): an element that was playing becomes paused and
\* a task is queued that fires "timeupdate" and "pause".
Pause(el) == [el EXCEPT !.paused = TRUE]
PauseQueuesTimeupdate(el) == el.src # 0 /\ ~el.paused

\* HTMLMediaElement.play(): an element at the end of its track seeks back to
\* the start (which queues "timeupdate"); the element is no longer paused.
AtEnd(el) == el.currentTime = Duration(el.src)
Play(el) == [el EXCEPT !.paused = FALSE,
                       !.currentTime = IF AtEnd(el) THEN Num(0) ELSE @]

\* Setting HTMLMediaElement.currentTime seeks: the position is clamped into
\* the track, and "timeupdate" is queued.
Seek(el, t) == [el EXCEPT !.currentTime = clamp(t, Num(0), Duration(el.src))]

-----------------------------------------------------------------------------
(* Playback.                                                               *)

\* Lines 65-99: the effect that reads audioFile() and, at line 75,
\* playbackSpeed(); it therefore re-runs when either signal changes while a
\* file is chosen.  It pauses the old element, replaces it by a new one and
\* starts reading and decoding the file.  It writes no signal.
loadEffect(f) ==
    /\ timeupdateQueued' = (timeupdateQueued \/ PauseQueuesTimeupdate(audioElement))
    /\ audioElement' = [src |-> f, paused |-> TRUE, currentTime |-> Num(0),
                        playbackRate |-> playbackSpeed']
    /\ decoding' = decoding \cup {f}

\* Lines 58-63, then the effect of lines 65-99.
handleFileUpload(f) ==
    /\ ~disposed
    /\ f # audioFile
    /\ audioFile' = f
    /\ playbackSpeed' = playbackSpeed
    /\ loadEffect(f)
    /\ last' = Op("load", Num(f))
    /\ endedQuiet' = FALSE
    /\ UNCHANGED <<params, decoded, isPlaying, currentTime, currentPage, raf, disposed>>

\* Lines 224-226, then the effects of lines 51-55 and 65-99.  The inputs
\* are rates every media element accepts.
SetPlaybackSpeed(t) ==
    /\ ~disposed
    /\ playbackSpeed' = OrElse(parseFloat(t), Num(1))
    /\ IF playbackSpeed' = playbackSpeed
          THEN UNCHANGED <<audioElement, timeupdateQueued, decoding>>
          ELSE IF audioFile # 0
                 THEN loadEffect(audioFile)
                 ELSE UNCHANGED <<audioElement, timeupdateQueued, decoding>>
    /\ last' = Op("setPlaybackSpeed", parseFloat(t))
    /\ UNCHANGED <<params, decoded, audioFile, isPlaying, currentTime, currentPage, raf,
                   disposed, endedQuiet>>

\* A slip that drops the isPlaying() test of line 117.
tickingIgnoresIsPlaying == audioElement.src # 0

\* Line 117: the test updatePlayback makes before it advances the time.
ticking == audioElement.src # 0 /\ isPlaying

\* Line 118: one run of updatePlayback while playing.
updatePlayback(t) == RAdd(t, RMul(Rat(1, TickRate), playbackSpeed))

\* n runs of updatePlayback, one per callback of the frame.
RECURSIVE Ticks(_, _)
Ticks(t, n) == IF n = 0 THEN t ELSE Ticks(updatePlayback(t), n - 1)

\* Lines 102-113, then the effect of lines 124-129.  The button exists only
\* while a file is chosen (line 237).
togglePlayback ==
    /\ ~disposed
    /\ audioFile # 0
    /\ IF audioElement.src = 0
          THEN UNCHANGED <<audioElement, timeupdateQueued, isPlaying, currentTime,
                           currentPage, raf, endedQuiet>>
          ELSE IF isPlaying
                 THEN /\ audioElement' = Pause(audioElement)
                      /\ timeupdateQueued' =
                            (timeupdateQueued \/ PauseQueuesTimeupdate(audioElement))
                      /\ isPlaying' = FALSE
                      /\ rafQueue' = rafQueue \ {playbackAnimationFrameId}
                      /\ UNCHANGED <<currentTime, currentPage, playbackAnimationFrameId,
                                     rafNext, endedQuiet>>
                 ELSE /\ rafNext < MaxRafId
                      /\ audioElement' = Play(audioElement)
                      /\ timeupdateQueued' = (timeupdateQueued \/ AtEnd(audioElement))
                      /\ isPlaying' = TRUE
                      /\ currentTime' = updatePlayback(currentTime)
                      /\ currentPage' = autoPage(currentTime', effectiveFps)
                      /\ rafNext' = rafNext + 1
                      /\ playbackAnimationFrameId' = rafNext'
                      /\ rafQueue' = rafQueue \cup {rafNext'}
                      /\ endedQuiet' = FALSE
    /\ last' = Op(IF isPlaying THEN "pause" ELSE "play", Num(0))
    /\ UNCHANGED <<params, playbackSpeed, decoded, audioFile, decoding, disposed>>

\* The browser runs every pending animation-frame callback; each is
\* updatePlayback (lines 116-121), which advances the time and asks for the
\* next frame only if an element exists and isPlaying().  Then the effect of
\* lines 124-129, unless the owner is disposed.
AnimationFrame ==
    /\ rafQueue # {}
    /\ LET n == Cardinality(rafQueue) IN
       IF ticking
         THEN /\ rafNext + n <= MaxRafId
              /\ currentTime' = Ticks(currentTime, n)
              /\ rafQueue' = (rafNext + 1) .. (rafNext + n)
              /\ rafNext' = rafNext + n
              /\ playbackAnimationFrameId' = rafNext + n
         ELSE /\ rafQueue' = {}
              /\ UNCHANGED <<currentTime, rafNext, playbackAnimationFrameId>>
    /\ currentPage' = IF disposed THEN currentPage
                                  ELSE autoPage(currentTime', effectiveFps)
    /\ last' = Op("tick", Num(Cardinality(rafQueue)))
    /\ UNCHANGED <<params, playbackSpeed, decoded, audioFile, isPlaying, audioElement,
                   timeupdateQueued, decoding, disposed, endedQuiet>>

\* Lines 316-324: the seek time of a click at offset x on frame index.
seekTimeFromClick(index, efps, x) ==
    LET fraction      == Rat(x, width)
        frameDuration == RDiv(Num(1), efps)
    IN  RAdd(RMul(Num(index), frameDuration), RMul(fraction, frameDuration))

\* A slip that drops the audioElement test of line 133.
handleSeekNoGuard(seekTime) ==
    /\ audioElement' = Seek(audioElement, seekTime)
    /\ timeupdateQueued' = TRUE
    /\ currentTime' = seekTime
    /\ currentPage' = autoPage(seekTime, effectiveFps)
    /\ endedQuiet' = FALSE

\* Lines 132-137.
handleSeek(seekTime) ==
    IF audioElement.src # 0
      THEN /\ audioElement' = Seek(audioElement, seekTime)
           /\ timeupdateQueued' = TRUE
           /\ currentTime' = seekTime
           /\ currentPage' = autoPage(seekTime, effectiveFps)
           /\ endedQuiet' = FALSE
      ELSE UNCHANGED <<audioElement, timeupdateQueued, currentTime, currentPage,
                       endedQuiet>>

\* A click on the canvas of a rendered frame: handleClick, handleSeek, then
\* the effect of lines 124-129.
FrameClick(index, x) ==
    /\ ~disposed
    /\ currentPage > -MaxBackPages
    /\ startFrame <= index /\ index < endFrame   \* index \in visibleFrames
    /\ handleSeek(seekTimeFromClick(index, effectiveFps, x))
    /\ last' = Op("seek", seekTimeFromClick(index, effectiveFps, x))
    /\ UNCHANGED <<params, playbackSpeed, decoded, audioFile, isPlaying, raf, decoding,
                   disposed>>

\* Lines 76-78: a queued "timeupdate" is delivered.  The listener reads the
\* variable audioElement, whichever element fired the event.
TimeUpdate ==
    /\ timeupdateQueued
    /\ timeupdateQueued' = FALSE
    /\ currentTime' = audioElement.currentTime
    /\ currentPage' = IF disposed THEN currentPage
                                  ELSE autoPage(currentTime', effectiveFps)
    /\ last' = Op("timeupdate", audioElement.currentTime)
    /\ UNCHANGED <<params, playbackSpeed, decoded, audioFile, isPlaying, audioElement, raf,
                   decoding, disposed, endedQuiet>>

\* The element plays on to position p and fires its periodic "timeupdate"
\* (lines 76-78).
MediaProgress(p) ==
    /\ audioElement.src # 0
    /\ ~audioElement.paused
    /\ ~timeupdateQueued
    /\ RLt(audioElement.currentTime, p)
    /\ RLt(p, Duration(audioElement.src))
    /\ audioElement' = [audioElement EXCEPT !.currentTime = p]
    /\ currentTime' = p
    /\ currentPage' = IF disposed THEN currentPage ELSE autoPage(p, effectiveFps)
    /\ last' = Op("timeupdate", p)
    /\ UNCHANGED <<params, playbackSpeed, decoded, audioFile, isPlaying, raf,
                   timeupdateQueued, decoding, disposed, endedQuiet>>

\* The element reaches the end of its track: it becomes paused and one task
\* fires "timeupdate" (lines 76-78) and then "ended" (lines 79-82).  The
\* media element's tasks run in the order they were queued, so a
\* "timeupdate" queued earlier has been delivered by then.
Ended ==
    /\ audioElement.src # 0
    /\ ~audioElement.paused
    /\ ~timeupdateQueued
    /\ audioElement' = [audioElement EXCEPT !.paused = TRUE,
                                            !.currentTime = Duration(audioElement.src)]
    /\ isPlaying' = FALSE
    /\ currentTime' = Num(0)
    /\ currentPage' = IF disposed THEN currentPage ELSE autoPage(Num(0), effectiveFps)
    /\ endedQuiet' = TRUE
    /\ last' = Op("ended", Num(0))
    /\ UNCHANGED <<params, playbackSpeed, decoded, audioFile, raf, timeupdateQueued,
                   decoding, disposed>>

\* Lines 86-96: the read and decode of file f complete; on failure only a
\* message is logged.  On success line 91 stores the buffer and line 92 its
\* channel data: two signal writes outside any batch, so the effects that
\* read audioBuffer re-run after line 91, before line 92 has run.  The
\* observation keeps the pair <<audioBuffer, waveformData>> of that moment.
DecodeDone(f, ok) ==
    /\ f \in decoding
    /\ decoding' = decoding \ {f}
    /\ IF ok THEN audioBuffer' = f /\ waveformData' = f
             ELSE UNCHANGED decoded
    /\ last' = IF ok THEN Op("decoded", <<f, waveformData>>)
                     ELSE Op("decodeError", Num(f))
    /\ UNCHANGED <<params, playbackSpeed, audioFile, isPlaying, currentTime, currentPage,
                   audioElement, raf, timeupdateQueued, disposed, endedQuiet>>

\* Setting HTMLMediaElement.currentTime, in doubles, for t >= 0.
SeekRounded(el, t) == [el EXCEPT !.currentTime = DMin(t, DOfRat(Duration(el.src)))]

\* Lines 132-137 in doubles.
handleSeekRounded(seekTime) ==
    IF audioElement.src # 0
      THEN /\ audioElement' = SeekRounded(audioElement, seekTime)
           /\ timeupdateQueued' = TRUE
           /\ currentTime' = seekTime
           /\ currentPage' = autoPageRounded(seekTime, effectiveFpsRounded)
           /\ endedQuiet' = FALSE
      ELSE UNCHANGED <<audioElement, timeupdateQueued, currentTime, currentPage,
                       endedQuiet>>

\* FrameClick in doubles.  The observation keeps the frame clicked, the
\* offset of the click and the page that showed the frame.
FrameClickRounded(index, x) ==
    /\ ~disposed
    /\ startFrame <= index /\ index < endFrame
    /\ handleSeekRounded(seekTimeFromClickRounded(index, effectiveFpsRounded, x))
    /\ last' = Op("seek", <<index, x, currentPage>>)
    /\ UNCHANGED <<params, playbackSpeed, decoded, audioFile, isPlaying, raf, decoding,
                   disposed>>

\* TimeUpdate in doubles.
TimeUpdateRounded ==
    /\ timeupdateQueued
    /\ timeupdateQueued' = FALSE
    /\ currentTime' = audioElement.currentTime
    /\ currentPage' = IF disposed THEN currentPage
                                  ELSE autoPageRounded(currentTime', effectiveFpsRounded)
    /\ last' = Op("timeupdate", audioElement.currentTime)
    /\ UNCHANGED <<params, playbackSpeed, decoded, audioFile, isPlaying, audioElement, raf,
                   decoding, disposed, endedQuiet>>

\* Lines 139-144: onCleanup, run when the component's owner is disposed.
\* From then on no effect re-runs and the page takes no input.
Teardown ==
    /\ ~disposed
    /\ disposed' = TRUE
    /\ audioElement' = IF audioElement.src # 0 THEN Pause(audioElement) ELSE audioElement
    /\ timeupdateQueued' = (timeupdateQueued \/ PauseQueuesTimeupdate(audioElement))
    /\ rafQueue' = rafQueue \ {playbackAnimationFrameId}
    /\ last' = Op("teardown", Num(0))
    /\ UNCHANGED <<params, playbackSpeed, decoded, audioFile, isPlaying, currentTime,
                   currentPage, playbackAnimationFrameId, rafNext, decoding, endedQuiet>>

-----------------------------------------------------------------------------
\* Lines 10-27, and the effects run once at mount.
Init ==
    /\ fps = Num(24)
    /\ frameCount = 100
    /\ useTweening = FALSE
    /\ tweenedFrames = 0
    /\ playbackSpeed = Num(1)
    /\ audioBuffer = 0
    /\ waveformData = 0
    /\ audioFile = 0
    /\ isPlaying = FALSE
    /\ currentTime = Num(0)
    /\ currentPage = 0
    /\ audioElement = NoElement
    /\ playbackAnimationFrameId = 0
    /\ rafQueue = {}
    /\ rafNext = 0
    /\ timeupdateQueued = FALSE
    /\ decoding = {}
    /\ disposed = FALSE
    /\ last = Op("init", Num(0))
    /\ endedQuiet = FALSE

\* The frames a click lands on: the first and the last frame of the page.
ClickFrames == IF startFrame < endFrame THEN {startFrame, endFrame - 1} ELSE {}

\* Every task of the program.  The sub-specifications below each keep the
\* tasks that write the variables their properties read.
Next ==
    \/ \E t \in FpsTextsPlay : SetFps(t)
    \/ \E t \in FrameCountTextsPlay : SetFrameCount(t)
    \/ ToggleTweening
    \/ \E t \in TweenTextsPlay : SetTweenedFrames(t)
    \/ \E t \in SpeedTexts : SetPlaybackSpeed(t)
    \/ \E f \in Files : handleFileUpload(f)
    \/ togglePlayback
    \/ AnimationFrame
    \/ \E index \in ClickFrames, x \in ClickXs : FrameClick(index, x)
    \/ TimeUpdate
    \/ \E p \in MediaTimes : MediaProgress(p)
    \/ Ended
    \/ \E f \in Files, ok \in BOOLEAN : DecodeDone(f, ok)
    \/ Teardown

Spec == Init /\ [][Next]_vars

\* The playback clock: every task that reads or writes isPlaying,
\* currentTime, the media element or the animation-frame queue.  Parameter
\* edits and decode completions write none of these, and are left out; the
\* parameters keep their initial values.
NextClock ==
    \/ \E t \in SpeedTexts : SetPlaybackSpeed(t)
    \/ \E f \in Files : handleFileUpload(f)
    \/ togglePlayback
    \/ AnimationFrame
    \/ \E index \in ClickFrames, x \in ClickXs : FrameClick(index, x)
    \/ TimeUpdate
    \/ \E p \in MediaTimes : MediaProgress(p)
    \/ Ended
    \/ Teardown

SpecClock == Init /\ [][NextClock]_vars

\* The pager: every task that writes currentTime, currentPage or a parameter
\* the page is computed from (fps, useTweening, tweenedFrames), with one file
\* and the initial playback speed.  The tasks left out (frame count and
\* playback speed edits, decode completions) leave all of these unchanged.
NextPage ==
    \/ \E t \in FpsTextsPlay : SetFps(t)
    \/ ToggleTweening
    \/ \E t \in TweenTextsPlay : SetTweenedFrames(t)
    \/ handleFileUpload(2)
    \/ togglePlayback
    \/ AnimationFrame
    \/ \E index \in ClickFrames, x \in ClickXs : FrameClick(index, x)
    \/ TimeUpdate
    \/ \E p \in MediaTimes : MediaProgress(p)
    \/ Ended
    \/ Teardown

SpecPage == Init /\ [][NextPage]_vars

\* The parameter pane alone: every parameter edit, with the full input sets.
NextParams ==
    \/ \E t \in FpsTexts : SetFps(t)
    \/ \E t \in FrameCountTexts : SetFrameCount(t)
    \/ ToggleTweening
    \/ \E t \in TweenTexts : SetTweenedFrames(t)

SpecParams == Init /\ [][NextParams]_vars

\* The decoder: every task that starts a decode, completes one or disposes
\* of the frames, and the seeks that move the time the frames are drawn for.
NextDecode ==
    \/ \E t \in SpeedTexts : SetPlaybackSpeed(t)
    \/ \E f \in Files : handleFileUpload(f)
    \/ \E index \in ClickFrames, x \in ClickXs : FrameClick(index, x)
    \/ TimeUpdate
    \/ \E f \in Files, ok \in BOOLEAN : DecodeDone(f, ok)
    \/ Teardown

SpecDecode == Init /\ [][NextDecode]_vars

\* The frames: the parameter edits that decide which frames exist and how
\* long each lasts, one file, and clicks inside the frames of the page.
NextFrame ==
    \/ \E t \in FpsTextsFrame : SetFps(t)
    \/ ToggleTweening
    \/ \E t \in TweenTextsPlay : SetTweenedFrames(t)
    \/ handleFileUpload(2)
    \/ \E index \in ClickFrames, x \in InsideXs : FrameClick(index, x)
    \/ TimeUpdate

SpecFrame == Init /\ [][NextFrame]_vars

\* Clicks in doubles.  The states it starts from are reached by parameter
\* edits, choosing file 2, its decode, and playing the track to a whole
\* second and pausing there.
InitClick ==
    /\ \E pr \in ClickParams : fps = pr[1] /\ useTweening = pr[2] /\ tweenedFrames = pr[3]
    /\ frameCount = 100
    /\ playbackSpeed = Num(1)
    /\ audioBuffer = 2 /\ waveformData = 2 /\ audioFile = 2
    /\ isPlaying = FALSE
    /\ \E t \in ClickTimes :
          /\ currentTime = DOfNat(t)
          /\ audioElement = [src |-> 2, paused |-> TRUE, currentTime |-> DOfNat(t),
                             playbackRate |-> Num(1)]
          /\ playbackAnimationFrameId = (IF t = 0 THEN 0 ELSE 1)
          /\ rafNext = (IF t = 0 THEN 0 ELSE 1)
    /\ currentPage = autoPageRounded(currentTime, effectiveFpsRounded)
    /\ rafQueue = {}
    /\ timeupdateQueued = FALSE
    /\ decoding = {}
    /\ disposed = FALSE
    /\ last = Op("init", Num(0))
    /\ endedQuiet = FALSE

NextClick ==
    \/ \E index \in ClickFrames \cup {startFrame + 7}, x \in InsideXs :
          FrameClickRounded(index, x)
    \/ TimeUpdateRounded

SpecClick == InitClick /\ [][NextClick]_vars

-----------------------------------------------------------------------------
(* Properties.                                                             *)

\* C1: in every settled state reached by parameter edits in which tweening
\* is enabled, tweenedFrames >= 0 and (tweenedFrames + 1) * baseFps <= 60,
\* also right after tweening is switched on.
TweenClampInvariant ==
    useTweening =>
        /\ tweenedFrames >= 0
        /\ RLe(RMul(Num(tweenedFrames + 1), fps), Num(60))

\* Tweening was just switched on and the effect lowered the tweenedFrames
\* value left over from before a base FPS change.
TweenClampedOnToggleOn ==
    /\ last.op = "toggleTweening"
    /\ useTweening
    /\ RLt(Num(tweenedFrames), last.arg)

\* C2: whatever is typed into the base FPS control, 1 <= baseFps <= 60.
FpsInRange == RLe(Num(1), fps) /\ RLe(fps, Num(60))

\* Empty or non-numeric text was typed at a base FPS other than 1, and
\* the base FPS became 1.
FpsInputClamped == last.op = "setFps" /\ IsNaN(last.arg) /\ fps = Num(1)

\* C3: loading a new audio file leaves the clock paused at time 0.
LoadLeavesPausedAtZero ==
    last.op = "load" => (~isPlaying /\ currentTime = Num(0))

\* C4: an animation-frame callback advances currentTime only while playing
\* and before teardown, and then by exactly playbackSpeed / 60 per callback.
TickOnlyWhilePlaying ==
    [][last'.op = "tick" =>
          IF isPlaying /\ ~disposed
            THEN currentTime' = Ticks(currentTime, Cardinality(rafQueue))
            ELSE currentTime' = currentTime]_vars

\* C5: a seek with a loaded source sets currentTime to the requested time
\* clamped into [0, duration] and leaves isPlaying unchanged.
SeekClampsToTrack ==
    [][(last'.op = "seek" /\ audioElement.src # 0) =>
          /\ currentTime' = clamp(last'.arg, Num(0), Duration(audioElement.src))
          /\ isPlaying' = isPlaying]_vars

\* C6: currentTime >= 0 and currentPage >= 0 in every reachable state.
TimeAndPageNonNegative == RLe(Num(0), currentTime) /\ currentPage >= 0

\* C7: in every rendered state currentPage is
\* floor(floor(currentTime * effectiveFps) / (columns * rows)), with the
\* effective FPS of the current parameters.
PageIsCurrent ==
    ~disposed =>
        currentPage = Floor(Rat(Floor(RMul(currentTime, effectiveFps)), columns * rows))

\* Switching tweening on moved the page: with the base FPS alone the time
\* falls on page 0, with the effective FPS on a later page.
PageMovedByToggle ==
    /\ ~disposed
    /\ last.op = "toggleTweening"
    /\ useTweening
    /\ Floor(RMul(currentTime, fps)) \div framesPerPage = 0
    /\ currentPage > 0

\* C8: the frames handed to the renderer are exactly the indices from
\* currentPage * framesPerPage up to, not including,
\* min((currentPage + 1) * framesPerPage, effectiveFrameCount), and each is a
\* valid index: 0 <= i < effectiveFrameCount.
VisibleFramesValid ==
    LET lo == currentPage * framesPerPage
        hi == Min((currentPage + 1) * framesPerPage, effectiveFrameCount)
    IN  /\ visibleFrames = {i \in lo .. (hi - 1) : TRUE}
        /\ \A i \in visibleFrames : 0 <= i /\ i < effectiveFrameCount

\* C9: after the track has ended the clock is paused at time 0, and stays
\* so until the next play, seek or load.
EndedStaysAtZero == endedQuiet => (~isPlaying /\ currentTime = Num(0))

\* The callback that was pending when the track ended has run, and the
\* time is still 0.
TickAfterEnded == endedQuiet /\ last.op = "tick" /\ currentTime = Num(0)

\* C10: 1 <= effectiveFps <= 60 in every reachable state, so no division
\* by effectiveFps divides by zero.
EffectiveFpsInRange == RLe(Num(1), effectiveFps) /\ RLe(effectiveFps, Num(60))

\* Tweening is on with tweened frames, at the limit of 60.
EffectiveFpsAtLimit ==
    useTweening /\ tweenedFrames > 0 /\ effectiveFps = Num(60)

\* C11: with tweening off effectiveFps = baseFps and effectiveFrameCount =
\* frameCount; with tweening on effectiveFps = (tweenedFrames + 1) * baseFps
\* and effectiveFrameCount = frameCount + (frameCount - 1) * tweenedFrames,
\* for the parameters of the current state.
EffectiveValuesFollowParams ==
    LET k == IF useTweening THEN tweenedFrames + 1 ELSE 1
    IN  /\ ~IsNaN(effectiveFps)
        /\ effectiveFps[1] * fps[2] = k * fps[1] * effectiveFps[2]
        /\ effectiveFrameCount = k * frameCount - (k - 1)

\* The example: 24 fps, 100 frames and 1 tweened frame give 48 and 199.
EffectiveValuesExample ==
    /\ useTweening /\ fps = Num(24) /\ frameCount = 100 /\ tweenedFrames = 1
    /\ effectiveFps = Num(48)
    /\ effectiveFrameCount = 199

\* C12: while no audio source is loaded, a play, pause or seek request
\* changes neither isPlaying, currentTime nor currentPage, starts no
\* animation-frame callback and leaves the (absent) media element alone.
IdleOpsAreNoOps ==
    [][(audioElement.src = 0 /\ last'.op \in {"play", "pause", "seek"}) =>
          UNCHANGED <<isPlaying, currentTime, currentPage, raf, audioElement,
                      timeupdateQueued>>]_vars

\* A frame was clicked while no source was loaded: a seek to a time other
\* than 0 was requested and the clock stayed at 0.
SeekWhileIdle ==
    /\ last.op = "seek"
    /\ audioFile = 0 /\ audioElement.src = 0
    /\ RLt(Num(0), last.arg)
    /\ currentTime = Num(0) /\ ~isPlaying /\ rafQueue = {}

\* C13: once the decode of the chosen file has failed and no other decode
\* is in flight, the renderer has neither a sample buffer nor channel data,
\* whatever was loaded before, and every frame shows a played ratio of 0.
DecodeFailureLeavesNoSource ==
    (last.op = "decodeError" /\ last.arg = Num(audioFile) /\ decoding = {}) =>
        /\ audioBuffer = 0 /\ waveformData = 0
        /\ \A index \in ClickFrames : shownPlayedRatio(index) = Num(0)

\* C14: whatever is typed into the playback speed control, the stored
\* playbackSpeed lies in [0.2, 3.0], and so does 60 times the amount one
\* run of updatePlayback adds to currentTime.
PlaybackSpeedInRange ==
    /\ RLe(Rat(1, 5), playbackSpeed) /\ RLe(playbackSpeed, Num(3))
    /\ RLe(Rat(1, 5 * TickRate), RSub(updatePlayback(currentTime), currentTime))
    /\ RLe(RSub(updatePlayback(currentTime), currentTime), Rat(3, TickRate))

\* C15: whatever is typed into the frame count control (0, a negative
\* number, text that is no number), frameCount >= 1 afterwards, and so
\* effectiveFrameCount >= 1.
FrameCountAtLeastOne == frameCount >= 1 /\ effectiveFrameCount >= 1

\* C16: for each frame of the page and the effective FPS of the state,
\* playedRatio as a function of the playback time t lies in [0, 1], is 0 for
\* every t <= startTime, is 1 for every t >= endTime, and does not
\* decrease as t grows.  The times tried are currentTime, 0, the frame's
\* start, middle and end, and a time before its start and after its end.
PlayedRatioShape ==
    \A index \in ClickFrames :
        LET s == startTime(index, effectiveFps)
            e == endTime(index, effectiveFps)
            T == {currentTime, Num(0), s, e, RDiv(RAdd(s, e), Num(2)),
                  RSub(s, Rat(1, 7)), RAdd(e, Rat(1, 7))}
            r(t) == playedRatio(index, effectiveFps, t)
        IN  \A t1 \in T :
                /\ RLe(Num(0), r(t1)) /\ RLe(r(t1), Num(1))
                /\ RLe(t1, s) => r(t1) = Num(0)
                /\ RLe(e, t1) => r(t1) = Num(1)
                /\ \A t2 \in T : RLe(t1, t2) => RLe(r(t1), r(t2))

\* A click has put the time inside the last frame of the page: that frame
\* is partly played, the first frame of the page fully.
FramePartlyPlayed ==
    /\ last.op = "seek"
    /\ startFrame < endFrame - 1
    /\ RLt(Num(0), playedRatio(endFrame - 1, effectiveFps, currentTime))
    /\ RLt(playedRatio(endFrame - 1, effectiveFps, currentTime), Num(1))
    /\ playedRatio(startFrame, effectiveFps, currentTime) = Num(1)

\* C17: with tweening off every frame of the page is a real frame; with
\* tweening on frame 0 is real and frame i is real exactly when
\* i mod (tweenedFrames + 1) = 0, so realness repeats with period
\* tweenedFrames + 1, where tweenedFrames is the value left by the clamp
\* to max(0, floor(60 / baseFps) - 1).
RealFramesPeriodic ==
    LET tf     == Min(tweenedFrames, Max(0, Floor(RDiv(Num(60), fps)) - 1))
        p      == tf + 1
        real(i) == isRealFrame(i, useTweening, tweenedFrames)
    IN  \A i \in visibleFrames \cup {0} :
            IF useTweening
              THEN /\ real(i) <=> (i % p = 0)
                   /\ real(i + p) <=> real(i)
                   /\ real(0)
              ELSE real(i)

\* Tweening was switched on and the clamp lowered tweenedFrames to a value
\* above 0: the page shows real frames and tweened frames.
TweenedFramesShown ==
    /\ last.op = "toggleTweening" /\ useTweening
    /\ RLt(Num(tweenedFrames), last.arg) /\ tweenedFrames > 0
    /\ \E i \in visibleFrames : isRealFrame(i, useTweening, tweenedFrames) /\ i > 0
    /\ \E i \in visibleFrames : ~isRealFrame(i, useTweening, tweenedFrames)

\* C18: at most one animation-frame callback of updatePlayback is pending
\* in every reachable state, and a frame of the scheduler runs at most one,
\* so currentTime advances by at most one playbackSpeed / 60 per frame.
AtMostOneTickChain ==
    /\ Cardinality(rafQueue) <= 1
    /\ last.op = "tick" => RLe(last.arg, Num(1))

\* C19: when a decode has succeeded and none is in flight, the buffer
\* (with its sample rate) and the channel data are those of the file chosen
\* last; and whenever the frames are drawn, also between the two writes of
\* a completing decode, the buffer and the channel data are of one file.
DecodedSourceIsCurrent ==
    /\ (last.op = "decoded" /\ decoding = {}) =>
            (audioBuffer = audioFile /\ waveformData = audioFile)
    /\ drawsWaveform(audioBuffer, waveformData) => audioBuffer = waveformData
    /\ (/\ last.op = "decoded"
        /\ ~disposed /\ startFrame < endFrame
        /\ drawsWaveform(last.arg[1], last.arg[2])) => last.arg[1] = last.arg[2]

\* Two doubles less than 2^-40 apart.
Near(a, b) ==
    LET lo == DMin(a, b)
        hi == IF DLt(a, b) THEN b ELSE a
    IN  DLt(DSub(hi, lo), <<<<1>>, -40>>)

\* C20: after a click on frame i of the page, at an offset x inside the
\* canvas (0 <= x < width), the active frame floor(currentTime *
\* effectiveFps) is i, currentPage is still the page that showed frame i,
\* and the played ratio of frame i is x / width (to within 2^-40).
ClickRoundTrip ==
    (last.op = "seek" /\ audioElement.src # 0) =>
        LET index == last.arg[1]
            x     == last.arg[2]
            page  == last.arg[3]
        IN  /\ activeFrameRounded(currentTime, effectiveFpsRounded) = index
            /\ currentPage = page
            /\ Near(playedRatioRounded(index, effectiveFpsRounded, currentTime),
                    DDiv(DOfNat(x), DOfNat(width)))

====
